---- MODULE Spec2Model ----
(***************************************************************************)
(* State-machine model of raspicam_node.cpp: the MMAL pipeline life cycle  *)
(* (init_cam / start_capture / close_cam), the two buffer pools and the    *)
(* two port callbacks (camera_buffer_callback on splitter output 0,        *)
(* encoder_buffer_callback on the encoder output).                         *)
(*                                                                         *)
(* Buffers of a pool are interchangeable, so each pool is modelled by the  *)
(* number of its buffers in the pool queue (free), queued at the port      *)
(* (inflight), and in the hands of application code (derived from the      *)
(* program counters).  A dereference of a null handle ends the process     *)
(* (crashed); a use of a destroyed object is a choice between a crash and  *)
(* reading stale memory.                                                   *)
(***************************************************************************)
EXTENDS Integers, Sequences, FiniteSets, TLC

VARIABLES
    params,        \* content of the ROS parameter server (ros::param)
    cfg,           \* state_srv: width, height, quality, framerate, bitrate, ...
    isInit,        \* state_srv.isInit
    h,             \* state_srv handles: "null", "valid" or "dangling"
    live,          \* number of live driver objects of each kind
    comp_enabled,  \* per component: it is enabled
    attached,      \* per sink: its port's userdata points at callback data
    port_enabled,  \* MMAL_PORT_T.is_enabled of each port of the current components
    capture,       \* times MMAL_PARAMETER_CAPTURE was set on the current camera
    free,          \* mmal_queue_length(pool->queue) of each callback port's pool
    inflight,      \* buffers queued at each callback port
    cb,            \* program counter of each port's callback thread
    queued,        \* buffers queued at each callback port when its running
                   \* callback was called (history, kept in the environment
                   \* that counts them; 0 with no callback running)
    frame,         \* PORT_USERDATA.frame of each callback port
    abort,         \* PORT_USERDATA.abort of each callback port
    accum,         \* compressed_msg.data
    pub,           \* per sink: emissions in this session and the last seq
    out,           \* per sink: the frame published by the running callback,
                   \* and (want) the bytes delivered for it (history); for the
                   \* raw sink want is the content of the delivered buffer
                   \* whether it is published or not
    c_info,        \* the camera-info record both callbacks fill in and publish
    frags,         \* fragments delivered to the encoder sink, while active,
                   \* since its last emission in this session (history)
    mainpc,        \* position of main()
    ctl,           \* position inside start_capture / close_cam ("idle": none)
    caller,        \* who called the running operation: "main" or "service"
    wasInit,       \* state_srv.isInit on entry of the running/last operation
    num,           \* start_capture: int num
    q,             \* start_capture: int q
    ret,           \* last return values of start_capture, close_cam, service
    starts,        \* number of start-capture requests served so far
    sig,           \* SIGINT: "none" so far, signal_handler "running", or "done"
    saved,         \* what signal_handler interrupted on the main thread
    crashed        \* the process died on an invalid memory access

vars == <<params, cfg, isInit, h, live, comp_enabled, attached, port_enabled,
          capture, free, inflight,
          cb, queued, frame, abort, accum, pub, out, c_info, frags, mainpc, ctl, caller,
          wasInit, num, q, ret, starts, sig, saved, crashed>>

pipeVars == <<isInit, h, live, comp_enabled, attached, port_enabled, capture, free, inflight>>
sinkVars == <<cb, queued, frame, abort, accum, pub, out, c_info, frags>>
sigVars  == <<sig, saved>>
ctlVars  == <<mainpc, ctl, caller, wasInit, num, q, ret, starts, sigVars>>
cfgVars  == <<params, cfg>>

(***************************************************************************)
(* Bounds of the model                                                     *)
(***************************************************************************)
EncBufferNum == 2
MaxFrames == 2
MaxAccum == 2
MaxStarts == 1

(***************************************************************************)
(* Program constants                                                       *)
(***************************************************************************)
SplitterBufferNum == 3
MaxWidth == 1920
MaxHeight == 1080
MaxQuality == 100
MaxFramerate == 90
MaxBitrate == 25000000
DefWidth == 640
DefHeight == 480
DefQuality == 70
DefFramerate == 30

Sinks == {"raw", "enc"}
Ports == {"still", "video", "split_in", "split_out0", "split_out1", "enc_in", "enc_out"}
Kinds == {"camera", "splitter", "encoder", "splitter_connection",
          "encoder_connection", "splitter_pool", "encoder_pool", "userdata"}
Handles == Kinds \ {"userdata"}
Components == {"encoder", "camera", "splitter"}

PoolOf(p) == IF p = "raw" THEN "splitter_pool" ELSE "encoder_pool"
PortOf(p) == IF p = "raw" THEN "split_out0" ELSE "enc_out"
Capacity(p) == IF p = "raw" THEN SplitterBufferNum ELSE EncBufferNum

(***************************************************************************)
(* get_status: the configuration read from the parameter server            *)
(***************************************************************************)
Absent == [has |-> FALSE, val |-> 0]
Given(v) == [has |-> TRUE, val |-> v]
ParamNames == {"width", "height", "quality", "framerate", "bitrate", "monochrome"}
AbsentParams == [n \in ParamNames |-> Absent]

\* `if (temp > 0 && temp <= max) field = temp; else field = def;`, and the
\* default when ros::param::get finds no value
InRange_off(temp, max) == temp >= 0 /\ temp <= max
InRange(temp, max) == temp > 0 /\ temp <= max
Ranged(p, max, def) ==
    IF p.has THEN (IF InRange(p.val, max) THEN p.val ELSE def) ELSE def

\* `if (temp > 25000000) temp = 25000000; state->bitrate = temp;`
ClampBitrate(temp) == IF temp > MaxBitrate THEN MaxBitrate ELSE temp
Bitrate(p) == IF p.has THEN ClampBitrate(p.val) ELSE MaxBitrate

ZeroCfg == [width |-> 0, height |-> 0, quality |-> 0, framerate |-> 0,
            bitrate |-> 0, monochrome |-> 0]

get_status(ps) ==
    [width      |-> Ranged(ps["width"], MaxWidth, DefWidth),
     height     |-> Ranged(ps["height"], MaxHeight, DefHeight),
     quality    |-> Ranged(ps["quality"], MaxQuality, DefQuality),
     framerate  |-> Ranged(ps["framerate"], MaxFramerate, DefFramerate),
     bitrate    |-> Bitrate(ps["bitrate"]),
     monochrome |-> IF ps["monochrome"].has /\ ps["monochrome"].val > 0 THEN 1 ELSE 0]

\* ros::param::set of the default for an absent width/height/quality/framerate
ParamsAfter(ps) ==
    [n \in ParamNames |->
        IF ps[n].has THEN ps[n]
        ELSE CASE n = "width" -> Given(DefWidth)
               [] n = "height" -> Given(DefHeight)
               [] n = "quality" -> Given(DefQuality)
               [] n = "framerate" -> Given(DefFramerate)
               [] OTHER -> ps[n]]

NullHandles == [k \in Handles |-> "null"]
NoPorts == [p \in Ports |-> FALSE]
NoComps == [k \in Components |-> FALSE]
NoData == [p \in Sinks |-> FALSE]
NoBuf == [data |-> <<>>, fe |-> FALSE, tf |-> FALSE]
NoPub == [n |-> 0, seq |-> 0]
NoSaved == [ctl |-> "idle", caller |-> "main", wasInit |-> 0]
NoInfo == [seq |-> 0, stamp |-> "none"]
NoOut == [on |-> FALSE, seq |-> 0, data |-> <<>>, want |-> <<>>, tf |-> FALSE,
          info |-> NoInfo]
NoRet == [init |-> -1, start |-> -1, close |-> -1, serv |-> FALSE]

InitRest ==
    /\ cfg = ZeroCfg
    /\ isInit = 0
    /\ h = NullHandles
    /\ live = [k \in Kinds |-> 0]
    /\ comp_enabled = NoComps
    /\ attached = NoData
    /\ port_enabled = NoPorts
    /\ capture = 0
    /\ free = [p \in Sinks |-> 0]
    /\ inflight = [p \in Sinks |-> 0]
    /\ cb = [p \in Sinks |-> "idle"]
    /\ queued = [p \in Sinks |-> 0]
    /\ frame = [p \in Sinks |-> 0]
    /\ abort = [p \in Sinks |-> 0]
    /\ accum = <<>>
    /\ pub = [p \in Sinks |-> NoPub]
    /\ out = [p \in Sinks |-> NoOut]
    /\ c_info = NoInfo
    /\ frags = <<>>
    /\ mainpc = "boot"
    /\ ctl = "idle"
    /\ caller = "main"
    /\ wasInit = 0
    /\ num = 0
    /\ q = 0
    /\ ret = NoRet
    /\ starts = 0
    /\ sig = "none"
    /\ saved = NoSaved
    /\ crashed = FALSE

\* parameter-server contents of the pipeline specification
SpecParams == {AbsentParams}

\* parameter-server contents of the configuration specification
Opt(S) == {Absent} \cup {Given(v) : v \in S}
CfgParams ==
    {[width |-> w, height |-> hh, quality |-> qu, framerate |-> f,
      bitrate |-> b, monochrome |-> Absent] :
        w \in Opt({-1, 0, 1, MaxWidth, MaxWidth + 1}),
        hh \in Opt({0, 1, MaxHeight, MaxHeight + 1}),
        qu \in Opt({0, 1, MaxQuality, MaxQuality + 1}),
        f \in Opt({0, 1, MaxFramerate, MaxFramerate + 1}),
        b \in Opt({-1, 0, MaxBitrate, MaxBitrate + 1})}

Init == InitRest /\ params \in SpecParams
InitCfg == InitRest /\ params \in CfgParams

\* main(): get_status(&state_srv), before anything else
main_get_status ==
    /\ ~crashed
    /\ mainpc = "boot"
    /\ cfg' = get_status(params)
    /\ params' = ParamsAfter(params)
    /\ mainpc' = "start0"
    /\ UNCHANGED <<pipeVars, sinkVars, ctl, caller, wasInit, num, q, ret, starts, crashed>>
    /\ UNCHANGED sigVars


(***************************************************************************)
(* Driver side: what the MMAL calls of the source do                       *)
(*   mmal_port_send_buffer fails on a port that is not enabled and may     *)
(*   fail on an enabled one; mmal_buffer_header_release puts the buffer    *)
(*   back into its pool's queue; mmal_port_disable clears is_enabled,      *)
(*   hands the buffers queued at the port back through the callback and    *)
(*   returns once those callbacks have returned.                           *)
(***************************************************************************)
Live(k) == h[k] = "valid"

\* frames reach a callback port while the camera captures into its tunnels
Flowing(p) ==
    /\ capture > 0
    /\ port_enabled["video"] /\ port_enabled["split_in"]
    /\ port_enabled[PortOf(p)]
    /\ (p = "enc" => port_enabled["split_out1"] /\ port_enabled["enc_in"])

Bytes == {1, 2}
Payloads == {<<>>} \cup {<<b>> : b \in Bytes}

\* buffer headers of a driver that fills every fragment with the same byte,
\* of one that returns its buffers empty, of one that also flags
\* transmission failures, and of one whose fragments differ as well
PlainBuffers ==
    {[data |-> d, fe |-> e, tf |-> FALSE] : d \in {<<>>, <<1>>}, e \in BOOLEAN}
EmptyBuffers == {NoBuf}
FlaggedBuffers ==
    {[data |-> d, fe |-> e, tf |-> t] : d \in {<<>>, <<1>>}, e \in BOOLEAN, t \in BOOLEAN}
RichBuffers ==
    {[data |-> d, fe |-> e, tf |-> t] : d \in Payloads, e \in BOOLEAN, t \in BOOLEAN}

\* the buffer headers the driver can hand to the callback of sink p in
\* environment E: filled ones while frames flow, empty ones once the port is disabled
Delivered(p, E) ==
    IF Flowing(p) THEN E.bufs
    ELSE IF port_enabled[PortOf(p)] THEN {} ELSE {NoBuf}

\* caps of the model: the frame counters and the accumulator stay bounded
WithinCaps(p, b) ==
    IF p = "raw"
    THEN Len(b.data) > 0 => frame[p] < MaxFrames
    ELSE /\ Len(accum) + Len(b.data) <= MaxAccum
         /\ (b.fe \/ b.tf) => frame[p] < MaxFrames

(***************************************************************************)
(* encoder_buffer_callback / camera_buffer_callback                        *)
(***************************************************************************)
\* `PORT_USERDATA* pData = (PORT_USERDATA*)port->userdata; if (pData && ...`
HasData(p) == attached[p]

\* `... && pData->pstate->isInit)`
Active == isInit = 1

\* the PORT_USERDATA whose frame counter the callback of port p works on:
\* init_cam gives each port a structure of its own (callback_data,
\* callback_data_enc)
UserdataOf_off(p) == "raw"
UserdataOf(p) == p

\* `buffer->flags & (FRAME_END | TRANSMISSION_FAILED)`
EndsFrame(b) == b.fe \/ b.tf

\* `pData->frame++`
NextFrame_off(f) == f
NextFrame(f) == f + 1

\* compressed_msg.data after the memcpy of the delivered bytes
Appended(acc, b) == IF Len(b.data) > 0 THEN acc \o b.data ELSE acc

\* `compressed_msg.data.clear()`
Cleared(acc) == <<>>

\* the callback of sink p publishes a frame on buffer header b: the encoder
\* callback under `if (buffer->flags & (FRAME_END | TRANSMISSION_FAILED))`,
\* the camera callback under `if (buffer->length)`
Emits_off(p, b) == HasData(p) /\ Active /\ EndsFrame(b)
Emits(p, b) ==
    /\ HasData(p) /\ Active
    /\ IF p = "enc" THEN EndsFrame(b) ELSE Len(b.data) > 0

\* `int bytes_written = buffer->length; ... if (bytes_written != buffer->length)`
WriteFailed(b) == LET bytes_written == Len(b.data) IN bytes_written # Len(b.data)

\* encoder_buffer_callback on buffer header b, up to mmal_buffer_header_release
EncProcess(b, info) ==
    LET data == Appended(accum, b)
    IN  IF HasData("enc") /\ Active
        THEN /\ abort' = IF WriteFailed(b) THEN [abort EXCEPT !["enc"] = 1] ELSE abort
             /\ IF Emits("enc", b)
                THEN /\ out' = [out EXCEPT !["enc"] =
                                  [on |-> TRUE, seq |-> frame[UserdataOf("enc")], data |-> data,
                                   want |-> frags \o b.data, tf |-> b.tf,
                                   info |-> info]]
                     /\ pub' = [pub EXCEPT !["enc"] =
                                  [n |-> @.n + 1, seq |-> frame[UserdataOf("enc")]]]
                     /\ frame' = [frame EXCEPT ![UserdataOf("enc")] = NextFrame(@)]
                     /\ accum' = Cleared(data)
                     /\ frags' = <<>>
                ELSE /\ accum' = data
                     /\ frags' = frags \o b.data
                     /\ UNCHANGED <<pub, out, frame>>
        ELSE UNCHANGED <<pub, out, frame, accum, frags, abort>>

\* camera_buffer_callback on buffer header b, up to mmal_buffer_header_release
RawProcess(b, info) ==
    /\ IF Emits("raw", b)
       THEN /\ out' = [out EXCEPT !["raw"] =
                         [on |-> TRUE, seq |-> frame[UserdataOf("raw")], data |-> b.data,
                          want |-> b.data, tf |-> b.tf, info |-> info]]
            /\ pub' = [pub EXCEPT !["raw"] =
                         [n |-> @.n + 1, seq |-> frame[UserdataOf("raw")]]]
            /\ frame' = [frame EXCEPT ![UserdataOf("raw")] = NextFrame(@)]
       ELSE /\ out' = [out EXCEPT !["raw"] = [NoOut EXCEPT !.want = b.data]]
            /\ UNCHANGED <<pub, frame>>
    /\ UNCHANGED <<accum, frags, abort>>

\* the driver thread of port p takes a buffer queued at the port and starts
\* the port's callback with it; the callback consumes it.  When it has a
\* frame to publish it fills in and publishes c_info, in one piece in an
\* environment that runs these statements undisturbed, and up to
\* `c_info.header.seq = pData->frame` in one that lets the other thread in
Callback(p, E) ==
    /\ ~crashed
    /\ cb[p] = "idle"
    /\ inflight[p] > 0
    /\ \E b \in Delivered(p, E) :
          LET whole == [seq |-> frame[p], stamp |-> p]
          IN  /\ WithinCaps(p, b)
              /\ queued' = IF E.count THEN [queued EXCEPT ![p] = inflight[p]]
                           ELSE queued
              /\ IF p = "enc" THEN EncProcess(b, IF E.split THEN NoInfo ELSE whole)
                 ELSE RawProcess(b, IF E.split THEN NoInfo ELSE whole)
              /\ IF Emits(p, b)
                 THEN IF E.split
                      THEN /\ c_info' = [c_info EXCEPT !.seq = frame[p]]
                           /\ cb' = [cb EXCEPT ![p] = "pub"]
                      ELSE /\ c_info' = whole
                           /\ cb' = [cb EXCEPT ![p] = "rel"]
                 ELSE /\ UNCHANGED c_info
                      /\ cb' = [cb EXCEPT ![p] = "rel"]
    /\ inflight' = [inflight EXCEPT ![p] = @ - 1]
    /\ UNCHANGED <<cfgVars, isInit, h, live, comp_enabled, attached, port_enabled, capture, free,
                   ctlVars, crashed>>

\* `c_info.header.stamp = <msg>.header.stamp; c_info.header.frame_id = ...;
\* camera_info_pub.publish(c_info);`: the record goes out as it is now
CbPublish(p) ==
    /\ ~crashed
    /\ cb[p] = "pub"
    /\ c_info' = [c_info EXCEPT !.stamp = p]
    /\ out' = [out EXCEPT ![p].info = c_info']
    /\ cb' = [cb EXCEPT ![p] = "rel"]
    /\ UNCHANGED <<cfgVars, pipeVars, queued, frame, abort, accum, pub, frags, ctlVars, crashed>>

\* mmal_buffer_header_release(buffer) stands after the `if (pData && ...)`
\* block, under no condition
Releases_off == isInit = 1
Releases == TRUE

\* `if (port->is_enabled)`
StillOpen_off(p) == TRUE
StillOpen(p) == port_enabled[PortOf(p)]

\* `mmal_buffer_header_release(buffer)`: the delivered buffer goes back to
\* its pool's queue (the published frame is with the subscribers by now);
\* then the test of port->is_enabled
CbRelease(p) ==
    /\ ~crashed
    /\ cb[p] = "rel"
    /\ free' = [free EXCEPT ![p] = IF Releases THEN @ + 1 ELSE @]
    /\ cb' = [cb EXCEPT ![p] = IF StillOpen(p) THEN "get" ELSE "idle"]
    /\ out' = [out EXCEPT ![p] = NoOut]
    /\ queued' = IF StillOpen(p) THEN queued ELSE [queued EXCEPT ![p] = 0]
    /\ UNCHANGED <<cfgVars, isInit, h, live, comp_enabled, attached, port_enabled, capture, inflight,
                   frame, abort, accum, pub, c_info, frags, ctlVars, crashed>>

\* the results mmal_port_send_buffer can have on the port of sink p, in
\* environment E: a lossy driver may fail any send, any driver refuses a
\* send to a disabled port
SendResults(p, E) ==
    IF port_enabled[PortOf(p)] THEN (IF E.lossy THEN {TRUE, FALSE} ELSE {TRUE})
    ELSE {FALSE}

\* `if (new_buffer)`, for a queue of n buffers: mmal_queue_get returns null
\* on an empty queue
Got_off(n) == TRUE
Got(n) == n > 0

\* `new_buffer = mmal_queue_get(pData->pstate-><pool>->queue); if (new_buffer)
\* status = mmal_port_send_buffer(port, new_buffer);`: a buffer whose send
\* failed is neither queued at the port nor put back into the pool.  pData
\* is dereferenced without a test.  (The pool is the one the delivered buffer
\* came from: it exists, and close_cam destroys it only after
\* mmal_port_disable has waited for this callback.)
\* the pool whose queue the callback of sink p reads: camera_buffer_callback
\* `pData->pstate->splitter_pool->queue`, encoder_buffer_callback
\* `pData->pstate->encoder_pool->queue`
DrawsFrom_off(p) == "enc"
DrawsFrom(p) == p

CbResend(p, E) ==
    /\ ~crashed
    /\ cb[p] = "get"
    /\ IF ~HasData(p)
       THEN /\ crashed' = TRUE
            /\ UNCHANGED <<free, inflight, cb, queued>>
       ELSE /\ IF Got(free[DrawsFrom(p)])
               THEN /\ free' = [free EXCEPT ![DrawsFrom(p)] = @ - 1]
                    /\ \E ok \in SendResults(p, E) :
                          /\ inflight' = IF ok THEN [inflight EXCEPT ![p] = @ + 1]
                                         ELSE inflight
                          /\ cb' = [cb EXCEPT ![p] = IF ok THEN "idle" ELSE "log"]
               ELSE /\ cb' = [cb EXCEPT ![p] = "log"]
                    /\ UNCHANGED <<free, inflight>>
            /\ queued' = IF cb'[p] = "idle" THEN [queued EXCEPT ![p] = 0] ELSE queued
            /\ UNCHANGED crashed
    /\ UNCHANGED <<cfgVars, isInit, h, live, comp_enabled, attached, port_enabled,
                   capture, frame, abort, accum, pub, out, c_info, frags, ctlVars>>

\* `if (!new_buffer || status != MMAL_SUCCESS) vcos_log_error(...)`: the
\* callback reports that it could not resupply the port, and returns
CbLog(p) ==
    /\ ~crashed
    /\ cb[p] = "log"
    /\ cb' = [cb EXCEPT ![p] = "idle"]
    /\ queued' = [queued EXCEPT ![p] = 0]
    /\ UNCHANGED <<cfgVars, pipeVars, frame, abort, accum, pub, out, c_info, frags,
                   ctlVars, crashed>>

(***************************************************************************)
(* init_cam                                                                *)
(***************************************************************************)
\* results of connect_ports: success, mmal_connection_create failed (the
\* handle is not assigned), mmal_connection_enable failed (the connection is
\* destroyed again and the handle keeps pointing at it)
ConnResults == {"ok", "create", "enable"}

\* which driver calls of one init_cam run succeed
InitOutcomes ==
    [cam : BOOLEAN, split : BOOLEAN, enc : BOOLEAN, encpool : BOOLEAN,
     conn1 : ConnResults, conn2 : ConnResults, pool1 : BOOLEAN, pool2 : BOOLEAN,
     en1 : BOOLEAN, en2 : BOOLEAN]

HandleAfterConnect(res) ==
    CASE res = "ok" -> "valid" [] res = "create" -> "null" [] OTHER -> "dangling"

\* `status = connect_ports(camera_video_port, ...); status = connect_ports(
\* splitter_encoder_port, ...); if (status != MMAL_SUCCESS) return 1;`
ConnectStatus(f) == f.conn2 = "ok"

\* state->splitter_pool after the two splitter_output_init calls, whose
\* return values are not looked at
SplitterPoolHandle(f) == IF f.pool2 THEN "valid" ELSE "null"
SplitterPoolsCreated(f) == (IF f.pool1 THEN 1 ELSE 0) + (IF f.pool2 THEN 1 ELSE 0)

\* the pipeline state init_cam leaves behind and its return value r, given
\* the outcomes f of its driver calls; get_status has zeroed the structure
InitCam(f) ==
    LET s0 == [h |-> NullHandles, live |-> live, ce |-> NoComps, ud |-> NoData,
               pe |-> NoPorts,
               free |-> [p \in Sinks |-> 0], isInit |-> 0, r |-> 1]
        \* create_camera_component (which enables the camera component),
        \* create_splitter_component
        s2 == [s0 EXCEPT !.h["camera"] = "valid", !.live["camera"] = @ + 1,
                         !.ce["camera"] = TRUE,
                         !.h["splitter"] = "valid", !.live["splitter"] = @ + 1]
        \* create_encoder_component and its pool, malloc of callback_data
        s3 == [s2 EXCEPT !.h["encoder"] = "valid", !.live["encoder"] = @ + 1,
                         !.h["encoder_pool"] = IF f.encpool THEN "valid" ELSE "null",
                         !.live["encoder_pool"] = IF f.encpool THEN @ + 1 ELSE @,
                         !.free["enc"] = IF f.encpool THEN EncBufferNum ELSE 0,
                         !.live["userdata"] = @ + 1]
        \* connect_ports(camera_video_port, splitter_input_port)
        s4 == [s3 EXCEPT !.h["splitter_connection"] = HandleAfterConnect(f.conn1),
                         !.live["splitter_connection"] = IF f.conn1 = "ok" THEN @ + 1 ELSE @,
                         !.pe["video"] = (f.conn1 = "ok"),
                         !.pe["split_in"] = (f.conn1 = "ok")]
        \* connect_ports(splitter_encoder_port, encoder_input_port)
        s5 == [s4 EXCEPT !.h["encoder_connection"] = HandleAfterConnect(f.conn2),
                         !.live["encoder_connection"] = IF f.conn2 = "ok" THEN @ + 1 ELSE @,
                         !.pe["split_out1"] = (f.conn2 = "ok"),
                         !.pe["enc_in"] = (f.conn2 = "ok")]
        \* splitter_output_init, twice; splitter_output_port->userdata
        s6 == [s5 EXCEPT !.h["splitter_pool"] = SplitterPoolHandle(f),
                         !.live["splitter_pool"] = @ + SplitterPoolsCreated(f),
                         !.free["raw"] = IF f.pool2 THEN SplitterBufferNum ELSE 0,
                         !.ud["raw"] = TRUE]
        \* mmal_port_enable(splitter_output_port, camera_buffer_callback),
        \* malloc of callback_data_enc, encoder_output_port->userdata
        s7 == [s6 EXCEPT !.pe["split_out0"] = TRUE, !.live["userdata"] = @ + 1,
                         !.ud["enc"] = TRUE]
        \* mmal_port_enable(encoder_output_port, encoder_buffer_callback)
        s8 == [s7 EXCEPT !.pe["enc_out"] = TRUE, !.isInit = 1, !.r = 0]
    IN  IF ~f.cam \/ ~f.split \/ ~f.enc THEN s0
        ELSE IF ~ConnectStatus(f) THEN s5
        ELSE IF ~f.en1 THEN s6
        ELSE IF ~f.en2 THEN s7
        ELSE s8

(***************************************************************************)
(* main(), the two services and the operations they call                   *)
(***************************************************************************)
\* the running operation returns to its caller; serv_start_cap and
\* serv_stop_cap return true whatever the operation returned
Finish(r) ==
    /\ ctl' = IF caller = "signal" THEN "sig_return" ELSE "idle"
    /\ ret' = [r EXCEPT !.serv = (caller = "service")]
    /\ mainpc' = IF caller \in {"service", "signal"} THEN mainpc
                 ELSE IF mainpc = "start0" THEN "spin" ELSE "done"

\* main() or serv_start_cap starts start_capture.  Caps of the model: the
\* number of start-capture requests, and no re-initialisation over the live
\* components a failed attempt left behind.
CallStart(c) ==
    /\ ~crashed
    /\ ctl = "idle"
    /\ \/ c = "main" /\ mainpc = "start0"
       \/ c = "service" /\ mainpc = "spin"
    /\ c = "service" => starts < MaxStarts /\ sig = "none"
    /\ isInit = 0 => h["camera"] # "valid"
    /\ ctl' = "sc_init"
    /\ caller' = c
    /\ wasInit' = isInit
    /\ ret' = NoRet
    /\ starts' = IF c = "service" THEN starts + 1 ELSE starts
    /\ UNCHANGED <<cfgVars, pipeVars, sinkVars, mainpc, num, q, crashed>>
    /\ UNCHANGED sigVars

\* `if (!(state->isInit)) init_cam(state);`
NeedsInit_off == TRUE
NeedsInit == isInit = 0

sc_init(E) ==
    /\ ~crashed
    /\ ctl = "sc_init"
    /\ IF NeedsInit
       THEN \E f \in E.init :
               LET s == InitCam(f)
               IN  /\ h' = s.h
                   /\ live' = s.live
                   /\ comp_enabled' = s.ce
                   /\ attached' = s.ud
                   /\ port_enabled' = s.pe
                   /\ free' = s.free
                   /\ isInit' = s.isInit
                   /\ ret' = [ret EXCEPT !.init = s.r]
                   /\ pub' = IF s.r = 0 THEN [p \in Sinks |-> NoPub] ELSE pub
                   /\ frags' = IF s.r = 0 THEN <<>> ELSE frags
                   /\ inflight' = [p \in Sinks |-> 0]
                   /\ frame' = [p \in Sinks |-> 0]
                   /\ abort' = [p \in Sinks |-> 0]
                   /\ capture' = 0
                   /\ cfg' = get_status(params)
                   /\ params' = ParamsAfter(params)
       ELSE UNCHANGED <<cfgVars, pipeVars, frame, abort, pub, frags, ret>>
    /\ ctl' = "sc_capture"
    /\ UNCHANGED <<cb, queued, accum, out, c_info, mainpc, caller, wasInit, num, q, starts,
                   crashed>>
    /\ UNCHANGED sigVars

\* the dereferences of state->camera_component and state->splitter_component
\* and `mmal_port_parameter_set_boolean(camera_video_port, CAPTURE, 1)`
sc_capture(E) ==
    /\ ~crashed
    /\ ctl = "sc_capture"
    /\ IF h["camera"] = "null" \/ h["splitter"] = "null"
       THEN /\ crashed' = TRUE
            /\ UNCHANGED <<capture, ctl, ret, mainpc>>
       ELSE /\ UNCHANGED crashed
            /\ \E ok \in E.capture :
                  IF ok
                  THEN /\ capture' = capture + 1
                       /\ ctl' = "sc_len_raw"
                       /\ UNCHANGED <<ret, mainpc>>
                  ELSE /\ Finish([ret EXCEPT !.start = 1])
                       /\ UNCHANGED capture
    /\ UNCHANGED <<cfgVars, isInit, h, live, comp_enabled, attached, port_enabled, free, inflight,
                   sinkVars, caller, wasInit, num, q, starts>>
    /\ UNCHANGED sigVars

LenLabel(p) == IF p = "raw" THEN "sc_len_raw" ELSE "sc_len_enc"
LoopLabel(p) == IF p = "raw" THEN "sc_raw" ELSE "sc_enc"

\* mmal_queue_length of a queue that holds n buffer headers
QueueLength_off(n) == n + 1
QueueLength(n) == n

\* `int num = mmal_queue_length(state-><pool>->queue);`
sc_len(p) ==
    /\ ~crashed
    /\ ctl = LenLabel(p)
    /\ IF h[PoolOf(p)] = "null"
       THEN /\ crashed' = TRUE
            /\ UNCHANGED <<ctl, num, q>>
       ELSE /\ num' = QueueLength(free[p])
            /\ q' = 0
            /\ ctl' = LoopLabel(p)
            /\ UNCHANGED crashed
    /\ UNCHANGED <<cfgVars, pipeVars, sinkVars, mainpc, caller, wasInit, ret, starts>>
    /\ UNCHANGED sigVars

\* one turn of `for (q = 0; q < num; q++)`: mmal_queue_get, then
\* mmal_port_send_buffer, also of a null buffer; after the loop on the
\* encoder pool start_capture returns 0
sc_loop(p, E) ==
    /\ ~crashed
    /\ ctl = LoopLabel(p)
    /\ IF q < num
       THEN /\ q' = q + 1
            /\ IF free[p] > 0
               THEN /\ free' = [free EXCEPT ![p] = @ - 1]
                    /\ \E ok \in SendResults(p, E) :
                          inflight' = IF ok THEN [inflight EXCEPT ![p] = @ + 1]
                                      ELSE inflight
                    /\ UNCHANGED crashed
               ELSE /\ crashed' \in BOOLEAN
                    /\ UNCHANGED <<free, inflight>>
            /\ UNCHANGED <<ctl, ret, mainpc>>
       ELSE /\ IF p = "raw"
               THEN /\ ctl' = "sc_len_enc"
                    /\ UNCHANGED <<ret, mainpc>>
               ELSE Finish([ret EXCEPT !.start = 0])
            /\ UNCHANGED <<q, free, inflight, crashed>>
    /\ UNCHANGED <<cfgVars, isInit, h, live, comp_enabled, attached, port_enabled, capture, sinkVars,
                   caller, wasInit, num, starts>>
    /\ UNCHANGED sigVars


\* serv_stop_cap, or main() after ros::spin, starts close_cam
CallStop(c) ==
    /\ ~crashed
    /\ ctl = "idle"
    /\ \/ c = "main" /\ mainpc = "final"
       \/ c = "service" /\ mainpc = "spin" /\ sig = "none"
    /\ ctl' = "cc_check"
    /\ caller' = c
    /\ wasInit' = isInit
    /\ ret' = NoRet
    /\ UNCHANGED <<cfgVars, pipeVars, sinkVars, mainpc, num, q, starts, crashed>>
    /\ UNCHANGED sigVars

\* ros::spin returns (the node is shut down)
Shutdown ==
    /\ ~crashed
    /\ ctl = "idle"
    /\ mainpc = "spin"
    /\ mainpc' = "final"
    /\ UNCHANGED <<cfgVars, pipeVars, sinkVars, ctl, caller, wasInit, num, q, ret,
                   starts, crashed>>
    /\ UNCHANGED sigVars

(***************************************************************************)
(* close_cam                                                               *)
(***************************************************************************)
\* `if (state->isInit)`
Running_off == TRUE
Running == isInit = 1

\* `if (state->isInit) { ... } else return 1;`
cc_check ==
    /\ ~crashed
    /\ ctl = "cc_check"
    /\ IF Running
       THEN /\ ctl' = "cc_clear"
            /\ UNCHANGED <<ret, mainpc>>
       ELSE Finish([ret EXCEPT !.close = 1])
    /\ UNCHANGED <<cfgVars, pipeVars, sinkVars, caller, wasInit, num, q, starts, crashed>>
    /\ UNCHANGED sigVars

\* `state->isInit = 0;`, the first statement of the teardown
cc_clear ==
    /\ ~crashed
    /\ ctl = "cc_clear"
    /\ isInit' = 0
    /\ ctl' = "cc_cam_ports"
    /\ UNCHANGED <<cfgVars, h, live, comp_enabled, attached, port_enabled, capture, free, inflight,
                   sinkVars, mainpc, caller, wasInit, num, q, ret, starts, crashed>>
    /\ UNCHANGED sigVars

\* check-and-disable of camera_still_port and camera_video_port
cc_cam_ports ==
    /\ ~crashed
    /\ ctl = "cc_cam_ports"
    /\ port_enabled' = [port_enabled EXCEPT !["still"] = FALSE, !["video"] = FALSE]
    /\ ctl' = "cc_enc_out"
    /\ UNCHANGED <<cfgVars, isInit, h, live, comp_enabled, attached, capture, free, inflight, sinkVars,
                   mainpc, caller, wasInit, num, q, ret, starts, crashed>>
    /\ UNCHANGED sigVars

\* port->is_enabled once mmal_port_disable(port) was called
AfterDisable_off == TRUE
AfterDisable == FALSE

DisableLabel(p) == IF p = "enc" THEN "cc_enc_out" ELSE "cc_split_out0"
WaitLabel(p) == IF p = "enc" THEN "cc_enc_wait" ELSE "cc_split_wait"

\* mmal_port_disable(encoder_output_port) / (splitter_video_output): the
\* port stops being enabled
cc_disable(p) ==
    /\ ~crashed
    /\ ctl = DisableLabel(p)
    /\ port_enabled' = [port_enabled EXCEPT ![PortOf(p)] = AfterDisable]
    /\ ctl' = WaitLabel(p)
    /\ UNCHANGED <<cfgVars, isInit, h, live, comp_enabled, attached, capture, free, inflight, sinkVars,
                   mainpc, caller, wasInit, num, q, ret, starts, crashed>>
    /\ UNCHANGED sigVars

\* mmal_port_disable returns when the port's buffers have come back through
\* the callback and the callback has returned
cc_wait(p) ==
    /\ ~crashed
    /\ ctl = WaitLabel(p)
    /\ cb[p] = "idle"
    /\ inflight[p] = 0
    /\ ctl' = IF p = "enc" THEN "cc_split_out0" ELSE "cc_split_out1"
    /\ UNCHANGED <<cfgVars, pipeVars, sinkVars, mainpc, caller, wasInit, num, q,
                   ret, starts, crashed>>
    /\ UNCHANGED sigVars

\* mmal_port_disable(splitter_encoder_output)
cc_split_out1 ==
    /\ ~crashed
    /\ ctl = "cc_split_out1"
    /\ port_enabled' = [port_enabled EXCEPT !["split_out1"] = FALSE]
    /\ ctl' = "cc_conn_enc"
    /\ UNCHANGED <<cfgVars, isInit, h, live, comp_enabled, attached, capture, free, inflight, sinkVars,
                   mainpc, caller, wasInit, num, q, ret, starts, crashed>>
    /\ UNCHANGED sigVars

\* what close_cam does once both connections are destroyed: it disables the
\* components
AfterConnections_off == "cc_pool_split"
AfterConnections == "cc_comp_disable"

ConnLabel(k) == IF k = "encoder_connection" THEN "cc_conn_enc" ELSE "cc_conn_split"
ConnPorts(k) ==
    IF k = "encoder_connection" THEN {"split_out1", "enc_in"} ELSE {"video", "split_in"}

\* mmal_connection_destroy(state->encoder_connection) /
\* (state->splitter_connection); the handle is not tested and not reset
cc_conn(k) ==
    /\ ~crashed
    /\ ctl = ConnLabel(k)
    /\ IF h[k] = "null"
       THEN /\ crashed' = TRUE
            /\ UNCHANGED <<h, live, port_enabled, ctl>>
       ELSE /\ IF h[k] = "valid"
               THEN /\ h' = [h EXCEPT ![k] = "dangling"]
                    /\ live' = [live EXCEPT ![k] = @ - 1]
                    /\ port_enabled' = [x \in Ports |->
                           IF x \in ConnPorts(k) THEN FALSE ELSE port_enabled[x]]
                    /\ UNCHANGED crashed
               ELSE /\ crashed' \in BOOLEAN
                    /\ UNCHANGED <<h, live, port_enabled>>
            /\ ctl' = IF k = "encoder_connection" THEN "cc_conn_split"
                      ELSE AfterConnections
    /\ UNCHANGED <<cfgVars, isInit, comp_enabled, attached, capture, free, inflight,
                   sinkVars, mainpc, caller, wasInit, num, q, ret, starts>>
    /\ UNCHANGED sigVars

\* mmal_component_disable of the encoder, the camera and the splitter
cc_comp_disable ==
    /\ ~crashed
    /\ ctl = "cc_comp_disable"
    /\ comp_enabled' = NoComps
    /\ ctl' = "cc_pool_split"
    /\ UNCHANGED <<cfgVars, isInit, h, live, attached, port_enabled, capture, free, inflight,
                   sinkVars, mainpc, caller, wasInit, num, q, ret, starts, crashed>>
    /\ UNCHANGED sigVars

PoolLabel(p) == IF p = "raw" THEN "cc_pool_split" ELSE "cc_pool_enc"

\* `if (state-><pool>) mmal_port_pool_destroy(port, state-><pool>);`
cc_pool(p) ==
    /\ ~crashed
    /\ ctl = PoolLabel(p)
    /\ IF h[PoolOf(p)] = "valid"
       THEN /\ h' = [h EXCEPT ![PoolOf(p)] = "dangling"]
            /\ live' = [live EXCEPT ![PoolOf(p)] = @ - 1]
            /\ free' = [free EXCEPT ![p] = 0]
            /\ inflight' = [inflight EXCEPT ![p] = 0]
            /\ UNCHANGED crashed
       ELSE /\ crashed' \in (IF h[PoolOf(p)] = "dangling" THEN BOOLEAN ELSE {FALSE})
            /\ UNCHANGED <<h, live, free, inflight>>
    /\ ctl' = IF p = "raw" THEN "cc_pool_enc" ELSE "cc_destroy"
    /\ UNCHANGED <<cfgVars, isInit, comp_enabled, attached, port_enabled, capture,
                   sinkVars, mainpc, caller, wasInit, num, q, starts, ret>>
    /\ UNCHANGED sigVars

\* mmal_component_destroy of the encoder, the camera and the splitter through
\* the local copies of the handles; the handles in *state keep their values;
\* close_cam returns 0
cc_destroy ==
    /\ ~crashed
    /\ ctl = "cc_destroy"
    /\ h' = [k \in Handles |-> IF k \in Components THEN "dangling" ELSE h[k]]
    /\ live' = [k \in Kinds |-> IF k \in Components THEN live[k] - 1 ELSE live[k]]
    /\ comp_enabled' = NoComps
    /\ attached' = NoData
    /\ port_enabled' = NoPorts
    /\ capture' = 0
    /\ Finish([ret EXCEPT !.close = 0])
    /\ UNCHANGED <<cfgVars, isInit, free, inflight, sinkVars, caller, wasInit,
                   num, q, starts, crashed>>
    /\ UNCHANGED sigVars

(***************************************************************************)
(* signal_handler                                                          *)
(***************************************************************************)
\* init_cam has run `signal(SIGINT, signal_handler)`: main() calls
\* start_capture, and with it init_cam, before anything else
Installed == mainpc # "boot" /\ ~(mainpc = "start0" /\ ctl = "idle")

\* SIGINT arrives and signal_handler interrupts the main thread wherever it
\* is, between any two statements of start_capture or close_cam included,
\* and calls close_cam.  Cap of the model: one SIGINT.
Signal ==
    /\ ~crashed
    /\ sig = "none"
    /\ Installed
    /\ sig' = "running"
    /\ saved' = [ctl |-> ctl, caller |-> caller, wasInit |-> wasInit]
    /\ ctl' = "cc_check"
    /\ caller' = "signal"
    /\ wasInit' = isInit
    /\ UNCHANGED <<cfgVars, pipeVars, sinkVars, mainpc, num, q, ret, starts, crashed>>

\* `ros::shutdown();` and the return of signal_handler: the main thread goes
\* on where it was interrupted
SigReturn ==
    /\ ~crashed
    /\ ctl = "sig_return"
    /\ sig' = "done"
    /\ ctl' = saved.ctl
    /\ caller' = saved.caller
    /\ wasInit' = saved.wasInit
    /\ saved' = NoSaved
    /\ UNCHANGED <<cfgVars, pipeVars, sinkVars, mainpc, num, q, ret, starts, crashed>>

\* the steps of main(), of the services and of start_capture / close_cam
Controller(E) ==
    \/ main_get_status
    \/ \E c \in {"main", "service"} : CallStart(c)
    \/ \E c \in {"main", "service"} : CallStop(c)
    \/ Shutdown
    \/ sc_init(E)
    \/ sc_capture(E)
    \/ \E p \in Sinks : sc_len(p)
    \/ \E p \in Sinks : sc_loop(p, E)
    \/ cc_check
    \/ cc_clear
    \/ cc_cam_ports
    \/ \E p \in Sinks : cc_disable(p)
    \/ \E p \in Sinks : cc_wait(p)
    \/ cc_split_out1
    \/ \E k \in {"encoder_connection", "splitter_connection"} : cc_conn(k)
    \/ cc_comp_disable
    \/ \E p \in Sinks : cc_pool(p)
    \/ cc_destroy

\* the steps of the two callback threads
Callbacks(E) ==
    \/ \E p \in Sinks : Callback(p, E)
    \/ \E p \in Sinks : CbRelease(p)
    \/ \E p \in Sinks : CbResend(p, E)
    \/ \E p \in Sinks : CbLog(p)

NextOn(E) == Controller(E) \/ Callbacks(E)

\* init_cam outcomes in which every driver call succeeds
AllSucceed ==
    {f \in InitOutcomes :
        /\ f.cam /\ f.split /\ f.enc /\ f.encpool /\ f.pool1 /\ f.pool2
        /\ f.en1 /\ f.en2 /\ f.conn1 = "ok" /\ f.conn2 = "ok"}

\* Environments: which results the driver calls of the source can have and
\* which buffer headers the driver delivers.
\*   SetupFaults  any call of init_cam and the capture switch may fail
\*   AllFaults    so may any mmal_port_send_buffer
\*   NoFaults     no call fails; fragments of differing content
\*   Flagging     no call fails; buffers flagged TRANSMISSION_FAILED
\*   Counting     no call fails; the buffers queued at a port are counted
\*                when its callback is called
\*   Interrupted  no call fails, the buffers circulate empty; used where a
\*                SIGINT can arrive
\*   Preempting   no call fails; a callback can be preempted by the other
\*                one between filling in c_info and publishing it
SetupFaults ==
    [init |-> InitOutcomes, capture |-> BOOLEAN, lossy |-> FALSE, bufs |-> PlainBuffers,
     split |-> FALSE, count |-> FALSE]
AllFaults ==
    [init |-> InitOutcomes, capture |-> BOOLEAN, lossy |-> TRUE, bufs |-> PlainBuffers,
     split |-> FALSE, count |-> FALSE]
NoFaults ==
    [init |-> AllSucceed, capture |-> {TRUE}, lossy |-> FALSE, bufs |-> RichBuffers,
     split |-> FALSE, count |-> FALSE]
Flagging ==
    [init |-> AllSucceed, capture |-> {TRUE}, lossy |-> FALSE, bufs |-> FlaggedBuffers,
     split |-> FALSE, count |-> FALSE]
Counting ==
    [init |-> AllSucceed, capture |-> {TRUE}, lossy |-> FALSE, bufs |-> PlainBuffers,
     split |-> FALSE, count |-> TRUE]
Interrupted ==
    [init |-> AllSucceed, capture |-> {TRUE}, lossy |-> FALSE, bufs |-> EmptyBuffers,
     split |-> FALSE, count |-> FALSE]
Preempting ==
    [init |-> AllSucceed, capture |-> {TRUE}, lossy |-> FALSE, bufs |-> PlainBuffers,
     split |-> TRUE, count |-> FALSE]

Next == NextOn(SetupFaults)
Spec == Init /\ [][Next]_vars

NextLossy == NextOn(AllFaults)
SpecLossy == Init /\ [][NextLossy]_vars

NextFrames == NextOn(NoFaults)
SpecFrames == Init /\ [][NextFrames]_vars

NextFlags == NextOn(Flagging)
SpecFlags == Init /\ [][NextFlags]_vars

NextSupply == NextOn(Counting)
SpecSupply == Init /\ [][NextSupply]_vars

NextSignal == NextOn(Interrupted) \/ Signal \/ SigReturn
SpecSignal == Init /\ [][NextSignal]_vars

\* Scheduling: the main thread keeps running (the statements of
\* start_capture, close_cam and signal_handler; after ros::shutdown() the
\* return of ros::spin and the close_cam call that ends main), and so does the
\* driver thread of each callback port.  Service requests and SIGINT are
\* events of the environment and may never come.
MainThread(E) ==
    \/ sc_init(E)
    \/ sc_capture(E)
    \/ \E p \in Sinks : sc_len(p)
    \/ \E p \in Sinks : sc_loop(p, E)
    \/ cc_check
    \/ cc_clear
    \/ cc_cam_ports
    \/ \E p \in Sinks : cc_disable(p)
    \/ \E p \in Sinks : cc_wait(p)
    \/ cc_split_out1
    \/ \E k \in {"encoder_connection", "splitter_connection"} : cc_conn(k)
    \/ cc_comp_disable
    \/ \E p \in Sinks : cc_pool(p)
    \/ cc_destroy
    \/ SigReturn
    \/ (sig = "done" /\ Shutdown)
    \/ CallStop("main")

DriverThread(p, E) == Callback(p, E) \/ CbRelease(p) \/ CbResend(p, E) \/ CbLog(p)

SpecLive ==
    /\ Init /\ [][NextSignal]_vars
    /\ WF_vars(MainThread(Interrupted))
    /\ \A p \in Sinks : WF_vars(DriverThread(p, Interrupted))

NextFine == NextOn(Preempting) \/ \E p \in Sinks : CbPublish(p)
SpecFine == Init /\ [][NextFine]_vars

SpecCfg == InitCfg /\ [][main_get_status]_vars

\* The two callbacks taken by themselves, as the driver may invoke them on a
\* port (enabled or not, with or without userdata) that has all the buffers
\* of its pool queued, with the pipeline state active or not
InitCb ==
    /\ params = ParamsAfter(AbsentParams)
    /\ cfg = get_status(AbsentParams)
    /\ isInit \in {0, 1}
    /\ h = [k \in Handles |-> "valid"]
    /\ live = [k \in Kinds |-> IF k = "userdata" THEN 2 ELSE 1]
    /\ comp_enabled = [NoComps EXCEPT !["camera"] = TRUE]
    /\ attached \in [Sinks -> BOOLEAN]
    /\ \E o0 \in BOOLEAN, o1 \in BOOLEAN :
          port_enabled = [x \in Ports |->
                            CASE x = "still" -> FALSE
                              [] x = "split_out0" -> o0
                              [] x = "enc_out" -> o1
                              [] OTHER -> TRUE]
    /\ capture = 1
    /\ free = [p \in Sinks |-> 0]
    /\ inflight = [p \in Sinks |-> Capacity(p)]
    /\ cb = [p \in Sinks |-> "idle"]
    /\ queued = [p \in Sinks |-> 0]
    /\ frame = [p \in Sinks |-> 0]
    /\ abort = [p \in Sinks |-> 0]
    /\ accum = <<>>
    /\ pub = [p \in Sinks |-> NoPub]
    /\ out = [p \in Sinks |-> NoOut]
    /\ c_info = NoInfo
    /\ frags = <<>>
    /\ mainpc = "spin"
    /\ ctl = "idle"
    /\ caller = "main"
    /\ wasInit = 0
    /\ num = 0
    /\ q = 0
    /\ ret = NoRet
    /\ starts = 0
    /\ sig = "none"
    /\ saved = NoSaved
    /\ crashed = FALSE

NextCb == Callbacks(AllFaults)
SpecCb == InitCb /\ [][NextCb]_vars
(***************************************************************************)
(* Properties                                                              *)
(***************************************************************************)
\* buffers of sink p's pool in the hands of the callback
Held(p) == IF cb[p] \in {"pub", "rel"} THEN 1 ELSE 0

StartSteps == {"sc_init", "sc_capture", "sc_len_raw", "sc_raw", "sc_len_enc", "sc_enc"}

\* C1: while the pipeline is active, the buffers of each pool are exactly
\* those free in its queue, those queued at the port and the one held by the
\* callback: free + in-flight + held = N
BufferAccounting ==
    \A p \in Sinks :
        (isInit = 1 /\ Live(PoolOf(p)))
            => free[p] + inflight[p] + Held(p) = Capacity(p)

\* C2: a callback that takes a buffer from its pool and submits it does so
\* on an enabled port and reads a pool that still exists
TeardownSafe ==
    [][\A p \in Sinks :
          (cb[p] = "get" /\ cb'[p] # "get")
             => /\ Live(PoolOf(p))
                /\ free'[p] # free[p] => port_enabled[PortOf(p)]]_vars

\* C3: while a start_capture that found the pipeline active runs, no stage,
\* connection or pool comes into being or goes away
SecondStartCreatesNothing ==
    [][(ctl \in StartSteps /\ wasInit = 1) => (live' = live /\ h' = h)]_vars

SecondStartReturned ==
    ctl = "idle" /\ wasInit = 1 /\ ret.start = 0 /\ isInit = 1

\* C4: a start_capture that found the pipeline active does not set the
\* capture flag, takes no buffer out of a pool, sends none to a port, and
\* returns success
SecondStartNoOp ==
    [][(ctl \in StartSteps /\ wasInit = 1 /\ ctl' # ctl)
          => /\ capture' = capture
             /\ free' = free
             /\ inflight' = inflight
             /\ ctl' = "idle" => ret'.start = 0]_vars

\* C5: close_cam on a pipeline that is not active changes nothing of the
\* pipeline state and returns at once; the stop-capture service reports
\* success
StopWhenIdleNoOp ==
    [][(ctl = "cc_check" /\ isInit = 0 /\ ctl' # ctl)
          => /\ UNCHANGED <<cfg, pipeVars>>
             /\ ctl' = "idle"
             /\ caller = "service" => ret'.serv]_vars

StoppedWhenIdle ==
    ctl = "idle" /\ wasInit = 0 /\ ret.close = 1 /\ ret.serv

\* C6: within a session each sink's emissions carry consecutive sequence
\* numbers
SeqConsecutive ==
    [][\A p \in Sinks :
          (pub'[p].n = pub[p].n + 1 /\ pub[p].n > 0)
             => pub'[p].seq = pub[p].seq + 1]_vars

TwoFramesEach ==
    pub["raw"].n = 2 /\ pub["enc"].n = 2 /\ pub["raw"].seq = 1 /\ pub["enc"].seq = 1

\* C7: a frame the compressed sink emits consists of the fragments delivered
\* to it, while active, since its previous frame, in delivery order, and the
\* accumulator is empty afterwards
FrameIsConcatenation ==
    out["enc"].on => (out["enc"].data = out["enc"].want /\ accum = <<>>)

\* parameter n was given on the parameter server with a value outside 1..max
OutOfRange(n, max) == params[n].has /\ (params[n].val < 1 \/ params[n].val > max)

\* C8: after get_status the stored values are within their ranges, and an
\* out-of-range input has been replaced by the default
ConfigBounds ==
    mainpc # "boot" =>
        /\ cfg.width \in 1..MaxWidth
        /\ cfg.height \in 1..MaxHeight
        /\ cfg.quality \in 1..MaxQuality
        /\ cfg.framerate \in 1..MaxFramerate
        /\ cfg.bitrate <= MaxBitrate
        /\ OutOfRange("width", MaxWidth) => cfg.width = DefWidth
        /\ OutOfRange("height", MaxHeight) => cfg.height = DefHeight
        /\ OutOfRange("quality", MaxQuality) => cfg.quality = DefQuality
        /\ OutOfRange("framerate", MaxFramerate) => cfg.framerate = DefFramerate
        /\ (params["bitrate"].has /\ params["bitrate"].val > MaxBitrate)
              => cfg.bitrate = MaxBitrate

ConfigDefaulted ==
    /\ mainpc # "boot"
    /\ params["width"] = Given(0) /\ cfg.width = DefWidth
    /\ params["height"] = Given(MaxHeight + 1) /\ cfg.height = DefHeight
    /\ params["quality"] = Given(MaxQuality) /\ cfg.quality = MaxQuality
    /\ params["framerate"] = Given(0) /\ cfg.framerate = DefFramerate
    /\ params["bitrate"] = Given(MaxBitrate + 1) /\ cfg.bitrate = MaxBitrate

\* C9: after a failed init_cam the pipeline is not active, nothing the
\* attempt created is left, start_capture does nothing more to the pipeline
\* and reports failure
SetupFailureHandled ==
    ret.init = 1 =>
        /\ isInit = 0
        /\ \A k \in Handles : live[k] = 0
        /\ capture = 0
        /\ ctl \in {"sc_capture", "idle"}
        /\ ctl = "idle" => ret.start = 1

\* C10: init_cam reports success, and the pipeline is active, only with both
\* connections, both pools and both callbacks in place
WiringAllOrNothing ==
    (ret.init = 0 \/ isInit = 1) =>
        /\ h["splitter_connection"] = "valid"
        /\ h["encoder_connection"] = "valid"
        /\ h["splitter_pool"] = "valid"
        /\ h["encoder_pool"] = "valid"
        /\ port_enabled["split_out0"]
        /\ port_enabled["enc_out"]

\* the ports close_cam disables, and the driver objects it destroys
ClosedPorts == {"still", "video", "enc_out", "split_out0", "split_out1"}
Connections == {"splitter_connection", "encoder_connection"}
Pools == {"splitter_pool", "encoder_pool"}
Destroyed(k) == live'[k] < live[k]
Disabled(x) == port_enabled[x] /\ ~port_enabled'[x]

\* C11: close_cam disables the still and video ports, then the encoder
\* output, then the splitter outputs; destroys the connections only with all
\* these ports disabled; disables the components only with the connections
\* gone; destroys the pools only with the components disabled; and destroys
\* the components only with the pools gone
StopOrdering ==
    [][/\ Disabled("enc_out") => ~port_enabled["still"] /\ ~port_enabled["video"]
       /\ Disabled("split_out0") => ~port_enabled["enc_out"]
       /\ Disabled("split_out1") => ~port_enabled["split_out0"]
       /\ (\E k \in Connections : Destroyed(k))
             => \A x \in ClosedPorts : ~port_enabled[x]
       /\ (comp_enabled["camera"] /\ ~comp_enabled'["camera"])
             => \A k \in Connections : ~Live(k)
       /\ (\E k \in Pools : Destroyed(k))
             => /\ comp_enabled = NoComps
                /\ \A k \in Connections : ~Live(k)
                /\ \A x \in ClosedPorts : ~port_enabled[x]
       /\ (\E k \in Components : Destroyed(k))
             => /\ \A k \in Pools : ~Live(k)
                /\ comp_enabled = NoComps]_vars

StoppedInOrder ==
    /\ ctl = "idle" /\ ret.close = 0 /\ wasInit = 1
    /\ \A k \in Handles : h[k] = "dangling"

\* C12: start_capture enables the capture flag only when no buffer is left
\* in either pool's free queue, and when it returns success the free queues
\* are empty and the pipeline is active
PrimedBeforeCapture ==
    [][/\ capture' > capture => \A p \in Sinks : free[p] = 0
       /\ (ctl \in StartSteps /\ ctl' = "idle" /\ ret'.start = 0)
             => /\ \A p \in Sinks : free'[p] = 0
                /\ isInit' = 1]_vars

\* C13: a frame the compressed sink emits on a buffer with the
\* transmission-failed flag leaves the accumulator empty, the sequence
\* counter one higher, and the sink's abort indicator at 1
TransmissionFailureAborts ==
    (out["enc"].on /\ out["enc"].tf)
        => /\ accum = <<>>
           /\ frame["enc"] = out["enc"].seq + 1
           /\ abort["enc"] = 1

\* C14: a callback that finds its port disabled after releasing the
\* delivered buffer returns: it takes no buffer from the pool, sends none to
\* the port, and changes nothing else
DeclinesWhenDisabled ==
    [][\A p \in Sinks :
          (cb[p] = "rel" /\ cb'[p] # "rel" /\ ~port_enabled[PortOf(p)])
             => /\ cb'[p] = "idle"
                /\ free'[p] = free[p] + 1
                /\ UNCHANGED <<inflight, abort, isInit, h, live, port_enabled, crashed>>]_vars

AllReturnedAfterDisable ==
    /\ ctl = "cc_enc_wait" /\ ~port_enabled["enc_out"]
    /\ cb["enc"] = "idle" /\ pub["enc"].n > 0
    /\ inflight["enc"] = 0 /\ free["enc"] = EncBufferNum

\* C15: a callback invocation releases the delivered buffer once, between
\* processing it and testing the port, whatever the pipeline state, the
\* buffer and the port; afterwards it takes at most one buffer from the pool
\* and submits at most one
ReleasesOnce ==
    [][\A p \in Sinks :
          /\ (cb[p] \in {"idle", "pub"} /\ cb'[p] # cb[p])
                => cb'[p] \in {"pub", "rel"} /\ free'[p] = free[p]
          /\ (cb[p] = "rel" /\ cb'[p] # "rel")
                => cb'[p] \in {"get", "idle"} /\ free'[p] = free[p] + 1
          /\ (cb[p] = "get" /\ cb'[p] # "get")
                => /\ cb'[p] \in {"idle", "log"}
                   /\ free'[p] \in {free[p], free[p] - 1}
                   /\ inflight'[p] \in {inflight[p], inflight[p] + 1}
          /\ (cb[p] = "log" /\ cb'[p] # "log")
                => cb'[p] = "idle" /\ free'[p] = free[p] /\ inflight'[p] = inflight[p]]_vars

ReleasedWhileInactive ==
    /\ ctl = "cc_split_wait" /\ isInit = 0
    /\ cb["raw"] = "idle" /\ pub["raw"].n > 0
    /\ free["raw"] = SplitterBufferNum

\* C16: a callback that finds the free queue of its pool empty sends
\* nothing, reports it, leaves the active flag, the components, connections
\* and pools as they are, and returns, so that the port's next delivery is
\* taken
ExhaustionNotFatal ==
    [][\A p \in Sinks :
          /\ (cb[p] = "get" /\ cb'[p] # "get" /\ free[p] = 0)
                => /\ cb'[p] = "log"
                   /\ UNCHANGED <<free, inflight, pipeVars, abort, crashed>>
          /\ (cb[p] = "log" /\ cb'[p] # "log")
                => /\ cb'[p] = "idle"
                   /\ UNCHANGED <<pipeVars, abort, crashed>>]_vars

FoundPoolEmpty ==
    \E p \in Sinks :
        /\ cb[p] = "log" /\ port_enabled[PortOf(p)] /\ isInit = 1
        /\ free[p] = 0 /\ Live(PoolOf(p))

\* C17: a callback invoked on a port without userdata changes no sink
\* state, releases the delivered buffer and completes, whether the port is
\* enabled or not
NullUserdataSafe ==
    [][\A p \in Sinks :
          ~attached[p] =>
             /\ (cb[p] = "idle" /\ cb'[p] = "rel")
                   => UNCHANGED <<frame, abort, accum, pub>>
             /\ (cb[p] = "rel" /\ cb'[p] # "rel")
                   => free'[p] = free[p] + 1
             /\ (cb[p] = "get" /\ ~crashed) => ~crashed']_vars

\* C18: the camera-info record a sink publishes with a frame carries that
\* frame's sequence number and the stamp and frame id that sink wrote
CompanionConsistent ==
    \A p \in Sinks :
        (out[p].on /\ out[p].info # NoInfo)
            => out[p].info = [seq |-> out[p].seq, stamp |-> p]

\* camera_buffer_callback was called with a buffer while the raw sink was
\* active, and has gone through its `if (pData && pData->pstate->isInit)` block
RawDelivery ==
    /\ cb["raw"] = "idle" /\ cb'["raw"] # "idle"
    /\ HasData("raw") /\ Active

RawEmitsOnce ==
    /\ out'["raw"].on
    /\ pub'["raw"].n = pub["raw"].n + 1
    /\ frame'["raw"] = frame["raw"] + 1

RawEmitsNothing ==
    /\ ~out'["raw"].on
    /\ pub'["raw"] = pub["raw"]
    /\ frame'["raw"] = frame["raw"]

\* C19: every buffer delivered to the raw sink while the pipeline is active
\* results in exactly one raw frame emission and one increment of the raw
\* sequence counter within that callback, whatever the buffer's length and
\* flags
RawOneBufferOneFrame == [][RawDelivery => RawEmitsOnce]_vars

\* C19 (amended): a buffer of non-zero length delivered to the raw sink while
\* the pipeline is active results in exactly one raw frame emission and one
\* increment of the raw sequence counter within that callback, whatever its
\* flags; a buffer of length zero results in no emission and no increment
RawOneFramePerFilledBuffer ==
    [][RawDelivery => IF Len(out'["raw"].want) > 0 THEN RawEmitsOnce
                      ELSE RawEmitsNothing]_vars

\* the raw sink has emitted a frame on a buffer flagged TRANSMISSION_FAILED,
\* with its counter one past the frame's sequence number
RawFrameOnFlaggedBuffer ==
    /\ cb["raw"] = "rel" /\ isInit = 1
    /\ out["raw"].on /\ out["raw"].tf
    /\ Len(out["raw"].data) > 0
    /\ frame["raw"] = out["raw"].seq + 1

\* the callback thread of sink p takes a step
CallbackStep(p) == cb'[p] # cb[p]

\* C20: a step of the raw callback leaves the compressed sink's sequence
\* counter and accumulator as they are, a step of the encoder callback
\* leaves the raw sink's sequence counter as it is, and under every
\* interleaving each sink's counter is the number of frames that sink has
\* emitted in the running session
IndependentCounters ==
    [][/\ CallbackStep("raw")
             => /\ frame'["enc"] = frame["enc"]
                /\ pub'["enc"] = pub["enc"]
                /\ accum' = accum
       /\ CallbackStep("enc")
             => /\ frame'["raw"] = frame["raw"]
                /\ pub'["raw"] = pub["raw"]
       /\ isInit' = 1 => \A p \in Sinks : frame'[p] = pub'[p].n]_vars

\* the sinks have emitted different numbers of frames in the running session
UnevenCounters ==
    /\ isInit = 1
    /\ pub["raw"].n = 2 /\ frame["raw"] = 2
    /\ pub["enc"].n = 1 /\ frame["enc"] = 1
    /\ cb["enc"] = "rel" /\ out["enc"].on

\* C21: no step of either sink's callback changes isInit, a component,
\* connection or pool handle of the pipeline state, or the configuration
\* values, and the callback of a sink takes buffers from the pool of its own
\* port only
CallbacksKeepStructure ==
    [][\A p \in Sinks :
          CallbackStep(p)
             => /\ UNCHANGED <<isInit, h, cfg>>
                /\ \A o \in Sinks \ {p} : free'[o] = free[o]]_vars

\* both callbacks have released a buffer in an active pipeline and are about
\* to draw one from their pools
BothAboutToDraw ==
    /\ isInit = 1 /\ ctl = "idle"
    /\ \A p \in Sinks : cb[p] = "get" /\ free[p] = 1 /\ Live(PoolOf(p))

\* the components that own the ports a pool or a connection belongs to
Owners(k) ==
    CASE k = "splitter_pool" -> {"splitter"}
      [] k = "encoder_pool" -> {"encoder"}
      [] k = "splitter_connection" -> {"camera", "splitter"}
      [] k = "encoder_connection" -> {"splitter", "encoder"}

\* C22: in every reachable state, the failure paths of init_cam and of
\* connect_ports included, a live pool or connection has none of the
\* components that own its ports destroyed: it is created after them and
\* destroyed before them
ResourceLifetimes ==
    \A k \in Pools \cup Connections :
        live[k] > 0 => \A c \in Owners(k) : live[c] > 0

\* no start_capture or close_cam is running
AtRest == ctl = "idle" /\ ~crashed

\* C23: with no start or stop in progress, the pipeline's resources exist and
\* its ports are enabled exactly when isInit is 1; with isInit 0 at rest no
\* port is enabled, no callback is attached to a port that can still deliver
\* buffers, and no component, connection or pool is live
ActiveFlagIsTruth ==
    AtRest =>
       IF isInit = 1
       THEN /\ \A k \in Handles : h[k] = "valid" /\ live[k] > 0
            /\ \A p \in Sinks : port_enabled[PortOf(p)]
       ELSE /\ \A x \in Ports : ~port_enabled[x]
            /\ \A p \in Sinks : ~(attached[p] /\ inflight[p] > 0)
            /\ \A k \in Handles : live[k] = 0

\* init_cam has succeeded: a capture session begins
SessionStart == isInit = 0 /\ isInit' = 1

\* C26: at the start of every capture session, whatever starts, deliveries
\* and stops came before it and wherever between two fragments the last stop
\* fell, the accumulator of the compressed sink is empty
NoStaleBytes == [][SessionStart => accum' = <<>>]_vars

\* close_cam has run its teardown to the end and returned 0
Closed == ctl = "idle" /\ ret.close = 0 /\ ~crashed

\* C27: everything a successful init_cam created (pools, connections,
\* components, callback userdata blocks) is destroyed or freed by the
\* close_cam that follows, so that after any number of start/stop cycles no
\* resource is live
NoLeak == Closed => \A k \in Kinds : live[k] = 0

\* start_capture has been called once (by main) and by no service request
SingleStart == starts' = 0

\* a turn of the priming loop of sink p's pool draws a buffer
LoopDraws(p) == ctl = LoopLabel(p) /\ q < num /\ q' = q + 1

\* the callback of sink p draws a buffer and submits it
CallbackDraws(p) == cb[p] = "get" /\ cb'[p] # "get"

\* neither a priming loop nor a callback finds its pool's queue empty when
\* it draws a buffer
NeverDry(p) ==
    /\ LoopDraws(p) => free[p] > 0
    /\ CallbackDraws(p) => free[DrawsFrom(p)] > 0

TeardownStep(l) == ctl = l /\ ctl' # l /\ sig' = sig

\* C25: under every interleaving of the callers of close_cam (the
\* stop-capture service, signal_handler interrupting the main thread at any
\* point, the call at the end of main) the teardown body runs at most once
\* for each successful init_cam: it is entered only with isInit still set,
\* and it destroys no connection, pool or component that is destroyed already
TeardownAtMostOnce ==
    [][/\ TeardownStep("cc_clear") => isInit = 1
       /\ \A k \in Connections : TeardownStep(ConnLabel(k)) => h[k] = "valid"
       /\ \A p \in Sinks : TeardownStep(PoolLabel(p)) => h[PoolOf(p)] = "valid"
       /\ TeardownStep("cc_destroy") => \A c \in Components : h[c] = "valid"]_vars

\* a stop-capture request, the end of main or SIGINT calls close_cam on the
\* active pipeline, or SIGINT arrives while start_capture is running
StopRequested ==
    /\ ctl = "cc_check" /\ ~crashed
    /\ isInit = 1 \/ (caller = "signal" /\ saved.ctl \in StartSteps)

\* the active flag is cleared, no port is enabled and every component,
\* connection and pool handle of the pipeline state is destroyed
Stopped ==
    /\ isInit = 0
    /\ \A x \in Ports : ~port_enabled[x]
    /\ \A k \in Handles : h[k] # "valid"

====
